---- MODULE Spec2Model ----
(***************************************************************************)
(* r2-dev2 front end: the normalisation of the recommendations response    *)
(* (frontend/src/utils/api.ts, getRecommendations) and the chat page's     *)
(* state machine (frontend/src/app/chat/page.tsx with ChatSidebar).        *)
(*                                                                         *)
(* Text is a sequence of characters; a character is a one-character        *)
(* string.  A JavaScript value is a record [t, v]: t is "str" (v its       *)
(* characters), "arr" (v its elements, values again), "other" (a truthy    *)
(* value that is neither a string nor an array: a number, an object) or    *)
(* "nullish" (null, undefined, 0, false).                                  *)
(***************************************************************************)
EXTENDS Integers, Sequences, FiniteSets, TLC

\* ------------------------------------------------------------- bounds
MaxStrLen == 4
MaxElemLen == 2
MaxArr == 1
MaxItemLen == 2
MaxItems == 2
MaxTurns == 2
MaxHistory == 2
MaxFields == 2
MaxTickets == 2

\* --------------------------------------------------------- characters
QUOTE == "\""
COMMA == ","
BSLASH == "\\"
SPACE == " "
LETTER == "a"
LBRACK == "["
RBRACK == "]"

Chars == {QUOTE, COMMA, BSLASH, SPACE, LETTER, LBRACK, RBRACK}
ElemChars == {QUOTE, COMMA, BSLASH, SPACE, LETTER}
ItemChars == {SPACE, LETTER}

SeqsUpTo(S, n) == UNION {[1..k -> S] : k \in 0..n}

Str(cs) == [t |-> "str", v |-> cs]
Arr(vs) == [t |-> "arr", v |-> vs]
Other == [t |-> "other", v |-> <<>>]
Nullish == [t |-> "nullish", v |-> <<>>]

\* JavaScript truthiness of a value: "" is falsy, every array is truthy.
Truthy(x) ==
  CASE x.t = "str" -> x.v # <<>>
    [] x.t = "arr" -> TRUE
    [] x.t = "other" -> TRUE
    [] OTHER -> FALSE

\* ------------------------------------------------- String.prototype
Front(s) == SubSeq(s, 1, Len(s) - 1)
Last(s) == s[Len(s)]

RECURSIVE TrimStart(_)
TrimStart(s) ==
  IF s # <<>> /\ Head(s) = SPACE THEN TrimStart(Tail(s)) ELSE s

RECURSIVE TrimEnd(_)
TrimEnd(s) ==
  IF s # <<>> /\ Last(s) = SPACE THEN TrimEnd(Front(s)) ELSE s

\* s.trim()
Trim(s) == TrimEnd(TrimStart(s))

\* s.replace(/[\\",]+$/, ''): the trailing run of backslashes, quotes, commas
RECURSIVE StripTrailing(_)
StripTrailing(s) ==
  IF s # <<>> /\ Last(s) \in {BSLASH, QUOTE, COMMA}
  THEN StripTrailing(Front(s))
  ELSE s

\* A plausible slip: only one trailing character is removed (no "+").
StripOneTrailing(s) ==
  IF s # <<>> /\ Last(s) \in {BSLASH, QUOTE, COMMA} THEN Front(s) ELSE s

cleanSuggestionNoPlus(s) == StripOneTrailing(Trim(s))

\* const cleanSuggestion = (s) => s.trim().replace(/[\\",]+$/, '')
cleanSuggestion(s) == StripTrailing(Trim(s))

\* s.replace(/^"|"$/g, ''): one quote at the start, one quote at the end
StripOuterQuotes(s) ==
  LET s1 == IF s # <<>> /\ Head(s) = QUOTE THEN Tail(s) ELSE s
  IN IF s1 # <<>> /\ Last(s1) = QUOTE THEN Front(s1) ELSE s1

\* The separator of s.split('","')
Separator == <<QUOTE, COMMA, QUOTE>>

StartsWithSeparator(s) ==
  Len(s) >= Len(Separator) /\ SubSeq(s, 1, Len(Separator)) = Separator

\* s.split('","'): the pieces between the non-overlapping occurrences of the
\* separator, scanned from the left; cur is the piece being collected.
RECURSIVE SplitFrom(_, _)
SplitFrom(s, cur) ==
  IF s = <<>> THEN <<cur>>
  ELSE IF StartsWithSeparator(s)
       THEN <<cur>> \o SplitFrom(SubSeq(s, Len(Separator) + 1, Len(s)), <<>>)
       ELSE SplitFrom(Tail(s), Append(cur, Head(s)))

Split(s) == SplitFrom(s, <<>>)

\* ------------------------------------------------------- JSON.parse
\* The JSON grammar over Chars: white space, strings with the escapes \" and
\* \\, and arrays.  Numbers, literals and objects cannot be written with
\* these characters.  A parse step returns [ok, val, next].
ParseFail == [ok |-> FALSE, val |-> Nullish, next |-> 0]

RECURSIVE SkipWs(_, _)
SkipWs(s, i) ==
  IF i <= Len(s) /\ s[i] = SPACE THEN SkipWs(s, i + 1) ELSE i

\* i is the position after the opening quote; acc the decoded characters
RECURSIVE ParseStringBody(_, _, _)
ParseStringBody(s, i, acc) ==
  IF i > Len(s) THEN ParseFail
  ELSE IF s[i] = QUOTE THEN [ok |-> TRUE, val |-> Str(acc), next |-> i + 1]
  ELSE IF s[i] = BSLASH
       THEN IF i + 1 <= Len(s) /\ s[i + 1] \in {QUOTE, BSLASH}
            THEN ParseStringBody(s, i + 2, Append(acc, s[i + 1]))
            ELSE ParseFail
       ELSE ParseStringBody(s, i + 1, Append(acc, s[i]))

RECURSIVE ParseValue(_, _)
RECURSIVE ParseElems(_, _, _)

\* i is the position of the first character of an element
ParseElems(s, i, acc) ==
  LET r == ParseValue(s, i)
      j == SkipWs(s, r.next)
  IN IF ~r.ok \/ j > Len(s) THEN ParseFail
     ELSE IF s[j] = COMMA
          THEN ParseElems(s, SkipWs(s, j + 1), Append(acc, r.val))
          ELSE IF s[j] = RBRACK
               THEN [ok |-> TRUE, val |-> Arr(Append(acc, r.val)), next |-> j + 1]
               ELSE ParseFail

ParseValue(s, i) ==
  IF i > Len(s) THEN ParseFail
  ELSE IF s[i] = QUOTE THEN ParseStringBody(s, i + 1, <<>>)
  ELSE IF s[i] = LBRACK
       THEN LET j == SkipWs(s, i + 1)
            IN IF j <= Len(s) /\ s[j] = RBRACK
               THEN [ok |-> TRUE, val |-> Arr(<<>>), next |-> j + 1]
               ELSE ParseElems(s, j, <<>>)
       ELSE ParseFail

\* JSON.parse(s): [ok, val]; ok = FALSE is the SyntaxError
JSONparse(s) ==
  LET r == ParseValue(s, SkipWs(s, 1))
  IN IF r.ok /\ SkipWs(s, r.next) > Len(s)
     THEN [ok |-> TRUE, val |-> r.val]
     ELSE [ok |-> FALSE, val |-> Nullish]

\* ------------------------------------------------- getRecommendations
AllStrings(vs) == \A i \in 1..Len(vs) : vs[i].t = "str"

\* vs.map(cleanSuggestion) for an array of strings
MapClean(vs) == [i \in 1..Len(vs) |-> Str(cleanSuggestion(vs[i].v))]

StrSeq(ss) == [i \in 1..Len(ss) |-> Str(ss[i])]

Returned(result) == [status |-> "returned", suggestions |-> result]
Threw == [status |-> "threw", suggestions |-> Nullish]
Pending == [status |-> "pending", suggestions |-> Nullish]

\* The catch branch: s.replace(/^"|"$/g, '').split('","').map(cleanSuggestion)
SplitFallback(s) == MapClean(StrSeq(Split(StripOuterQuotes(s))))

\* The branch for a string: JSON.parse, and the catch of its SyntaxError or of
\* the TypeError cleanSuggestion raises on an element that is not a string.
\* A value that parses to something else than an array is left as it is.
NormaliseString(sug) ==
  LET p == JSONparse(sug.v)
  IN IF p.ok /\ p.val.t = "arr" /\ AllStrings(p.val.v)
     THEN Arr(MapClean(p.val.v))
     ELSE IF p.ok /\ p.val.t # "arr"
          THEN sug
          ELSE Arr(SplitFallback(sug.v))

\* res is the HTTP response: ok, and the suggestions field of its JSON body.
getRecommendations(res) ==
  IF ~res.ok THEN Threw
  ELSE LET sug == res.suggestions
       IN IF Truthy(sug) /\ sug.t = "arr"
          THEN IF AllStrings(sug.v) THEN Returned(Arr(MapClean(sug.v))) ELSE Threw
          ELSE IF Truthy(sug) /\ sug.t = "str"
               THEN Returned(NormaliseString(sug))
               ELSE IF Truthy(sug) /\ sug.t # "arr"
                    THEN Returned(Arr(<<>>))
                    ELSE Returned(sug)

\* ---------------------------------------------------------- inputs
\* "Do X","Do Y",  : each item in quotes, a comma after each
RECURSIVE QuotedList(_)
QuotedList(items) ==
  IF items = <<>> THEN <<>>
  ELSE <<QUOTE>> \o Head(items) \o <<QUOTE, COMMA>> \o QuotedList(Tail(items))

Items == SeqsUpTo(ItemChars, MaxItemLen)
ItemLists == UNION {[1..k -> Items] : k \in 2..MaxItems}

ElemValues == {Str(s) : s \in SeqsUpTo(ElemChars, MaxElemLen)} \cup {Other}
ArrayInputs == {Arr(vs) : vs \in SeqsUpTo(ElemValues, MaxArr)}
StringInputs == {Str(s) : s \in SeqsUpTo(Chars, MaxStrLen)}


\* ================================================ the other API calls
\* An environment variable: unset, or set to a string
EnvUnset == [set |-> FALSE, v |-> ""]
Env(v) == [set |-> TRUE, v |-> v]
EnvTruthy(e) == e.set /\ e.v # ""

AuthUsers == {EnvUnset, Env(""), Env("r2-dev2")}
AuthPasses == {EnvUnset, Env(""), Env("MayThe404BeWithYou!")}

\* btoa(...): the encoding itself is left uninterpreted
btoa(cs) == [base64 |-> cs]

NoHeader == [present |-> FALSE, value |-> <<>>]

\* The header is built as soon as the user name is set
getBasicAuthHeaderUserOnly(user, pass) ==
  IF EnvTruthy(user)
  THEN [present |-> TRUE, value |-> <<"Basic", btoa(<<user.v, ":", pass.v>>)>>]
  ELSE NoHeader

\* if (user && pass) return { Authorization: `Basic ${btoa(`${user}:${pass}`)}` };
\* return {}
getBasicAuthHeader(user, pass) ==
  IF EnvTruthy(user) /\ EnvTruthy(pass)
  THEN [present |-> TRUE, value |-> <<"Basic", btoa(<<user.v, ":", pass.v>>)>>]
  ELSE NoHeader

ApiFunctions ==
  {"fetchSessions", "fetchMessages", "sendMessage", "renameSession",
   "deleteSession", "getLastActiveSession", "getRecommendations"}

\* The method and the path of the fetch of each function
Method(fn) ==
  CASE fn \in {"sendMessage", "getRecommendations"} -> "POST"
    [] fn = "renameSession" -> "PUT"
    [] fn = "deleteSession" -> "DELETE"
    [] OTHER -> "GET"

Path(fn) ==
  CASE fn = "fetchSessions" -> "/chat/sessions/{user_id}"
    [] fn = "fetchMessages" -> "/chat/sessions/{session_id}/messages"
    [] fn = "sendMessage" -> "/chat/agent"
    [] fn = "renameSession" -> "/chat/sessions/{session_id}/rename"
    [] fn = "deleteSession" -> "/chat/sessions/{session_id}"
    [] fn = "getLastActiveSession" -> "/chat/sessions/{user_id}/last-active"
    [] OTHER -> "/recommendations"

\* The functions whose headers spread ...getBasicAuthHeader()
SpreadsAuthHeader == {"sendMessage", "deleteSession", "getRecommendations"}

NoRequest == [method |-> "", path |-> "", authorization |-> NoHeader]

Request(fn, user, pass) ==
  [method |-> Method(fn), path |-> Path(fn),
   authorization |-> IF fn \in SpreadsAuthHeader
                     THEN getBasicAuthHeader(user, pass)
                     ELSE NoHeader]

\* A response: its status and its body, which is JSON or not; or no response
\* at all (fetch rejects).
Statuses == {200, 201, 204, 400, 404, 500}
Bodies == {[json |-> TRUE, text |-> "{...}"], [json |-> FALSE, text |-> "oops"]}
NetworkError == [kind |-> "network error", status |-> 0, body |-> [json |-> FALSE, text |-> ""]]
Responses ==
  {[kind |-> "http", status |-> st, body |-> b] : st \in Statuses, b \in Bodies}
    \cup {NetworkError}

\* res.ok
ResOk(res) == res.status \in 200..299

\* What a call ends with, and which reader of the body it used
Outcome(status, kind, message, code, text, read) ==
  [status |-> status, kind |-> kind, message |-> message, code |-> code,
   text |-> text, read |-> read]
PendingOutcome == Outcome("pending", "", "", 0, "", "none")
\* fetch rejects
ThrewNetwork == Outcome("threw", "TypeError", "fetch failed", 0, "", "none")
\* throw new Error(message)
ThrewMessage(message) == Outcome("threw", "Error", message, 0, "", "none")
\* const errorText = await res.text(); throw new Error(`message: ${res.status} ${errorText}`)
ThrewStatus(message, res) ==
  Outcome("threw", "Error", message, res.status, res.body.text, "text")
\* return res.json()
ResJson(res) ==
  IF res.body.json
  THEN Outcome("returned", "json", "", 0, res.body.text, "json")
  ELSE Outcome("threw", "SyntaxError", "", 0, "", "json")
\* return { success: true }
ReturnedSuccess == Outcome("returned", "success", "", 0, "", "none")
\* return null
ReturnedNull == Outcome("returned", "null", "", 0, "", "none")

\* fetchSessions, fetchMessages, sendMessage
fetchOrThrow(message, res) ==
  IF ~ResOk(res) THEN ThrewMessage(message) ELSE ResJson(res)

\* The 204 status is not told from the other 2xx
renameOrDeleteNo204(message, res) ==
  IF ~ResOk(res) THEN ThrewStatus(message, res) ELSE ResJson(res)

\* renameSession and deleteSession after their fetch
renameOrDelete(message, res) ==
  IF ~ResOk(res) THEN ThrewStatus(message, res)
  ELSE IF res.status = 204 THEN ReturnedSuccess
  ELSE ResJson(res)

\* The 404 status raises like the other failures
getLastActiveSessionNo404(res) ==
  IF ~ResOk(res)
  THEN ThrewStatus("Failed to fetch last active session", res)
  ELSE ResJson(res)

\* getLastActiveSession after its fetch
getLastActiveSession(res) ==
  IF ~ResOk(res)
  THEN IF res.status = 404 THEN ReturnedNull
       ELSE ThrewStatus("Failed to fetch last active session", res)
  ELSE ResJson(res)

\* getRecommendations after its fetch, up to const result = await res.json();
\* what it makes of result.suggestions is the operator getRecommendations.
recommendationsOutcome(res) ==
  IF ~ResOk(res) THEN ThrewStatus("Failed to fetch recommendations", res)
  ELSE ResJson(res)

\* What the function fn makes of the answer to its fetch
Handle(fn, res) ==
  IF res.kind = "network error" THEN ThrewNetwork
  ELSE CASE fn = "fetchSessions" -> fetchOrThrow("Failed to fetch sessions", res)
         [] fn = "fetchMessages" -> fetchOrThrow("Failed to fetch messages", res)
         [] fn = "sendMessage" ->
              fetchOrThrow("Failed to get a response from the agent.", res)
         [] fn = "renameSession" -> renameOrDelete("Failed to rename session", res)
         [] fn = "deleteSession" -> renameOrDelete("Failed to delete session", res)
         [] fn = "getLastActiveSession" -> getLastActiveSession(res)
         [] OTHER -> recommendationsOutcome(res)

IdleCall == [fn |-> "", user |-> EnvUnset, pass |-> EnvUnset, response |-> NetworkError]

\* =================================================== the dashboard

\* The three ticket cards of the dashboard, each with its endpoint
\* /data/users/{id}/tickets/{open,in-progress,closed}
TicketStatuses == {"open", "inProgress", "closed"}

\* What a fetch of the dashboard ends with: no answer (fetch rejects), or a
\* status with a body that is an array of n tickets, another JSON value, or
\* text that JSON.parse rejects
TicketBodies ==
  {[json |-> "array", n |-> n] : n \in 0..MaxTickets}
    \cup {[json |-> "object", n |-> 0], [json |-> "invalid", n |-> 0]}
NoAnswer == [kind |-> "network error", status |-> 0, body |-> [json |-> "invalid", n |-> 0]]
TicketAnswers ==
  {[kind |-> "response", status |-> st, body |-> b] :
     st \in {200, 404, 500}, b \in TicketBodies} \cup {NoAnswer}
UserInfoAnswers ==
  {[kind |-> "response", status |-> st, body |-> [json |-> j, n |-> 0]] :
     st \in {200, 404}, j \in {"object", "invalid"}} \cup {NoAnswer}

\* await fetch(...) rejects
FetchRejects(res) == res.kind = "network error"

\* await res.json() rejects
JsonRejects(res) == res.body.json = "invalid"

\* if (res.ok) { const tickets = await res.json();
\*               count = Array.isArray(tickets) ? tickets.length : 0 }
\* else { await res.text() } with count left at 0
TicketCount(res) ==
  IF ResOk(res)
  THEN IF res.body.json = "array" THEN res.body.n ELSE 0
  ELSE 0

\* The statement that ends the try block early: one of the three fetches of
\* Promise.all rejects, or a 2xx body is not JSON
TicketsThrow(answers) ==
  \/ \E s \in TicketStatuses : FetchRejects(answers[s])
  \/ \E s \in TicketStatuses : ResOk(answers[s]) /\ JsonRejects(answers[s])

\* useState<TicketSummary>({ open: 0, inProgress: 0, closed: 0 })
NoTickets == [s \in TicketStatuses |-> 0]

\* =================================================== the chat page
\* Session ids and message texts are pairs <<kind, n>>.
NULL == <<"null", 0>>
Old(i) == <<"old", i>>
New(t) == <<"new", t>>

Turns == 1..MaxTurns
ExistingSessions == {Old(1)}
NewSessions == {New(t) : t \in Turns}
SessionIds == ExistingSessions \cup NewSessions

\* const { user } = useAuth(): the logged-in user
UserId == <<"user", 1>>

NoText == <<"", 0>>
Query(t) == <<"query", t>>
Response(t) == <<"response", t>>
StoredQuery(sid) == <<"stored query", sid[2]>>
StoredResponse(sid) == <<"stored response", sid[2]>>
SorryText == <<"Sorry, something went wrong.", 0>>
LoadFailedText == <<"Failed to load chat history.", 0>>

\* interface Message { text; sender; timestamp }: the timestamp is left out
Message(sender, text) == [sender |-> sender, text |-> text]

\* A stored message as GET /chat/sessions/{id}/messages returns it: a record
\* of the fields it carries, among which the page looks at role, type, sender
\* and the text fields.
TextFields ==
  {"content", "message", "text", "user_message", "assistant_message", "query",
   "response", "user_query", "assistant_response", "bot_message"}

Item(role, content) == [role |-> role, content |-> content]

\* item.role, item.type, item.sender: "" stands for an absent field
TagOf(item, f) == IF f \in DOMAIN item THEN item[f] ELSE ""

\* item.content, ...: NoText stands for an absent field
TextOf(item, f) == IF f \in DOMAIN item THEN item[f] ELSE NoText

\* a || b || c
FirstTruthy(texts) ==
  IF \E i \in 1..Len(texts) : texts[i] # NoText
  THEN texts[CHOOSE i \in 1..Len(texts) :
               /\ texts[i] # NoText
               /\ \A j \in 1..(i - 1) : texts[j] = NoText]
  ELSE NoText

\* [...].filter(Boolean)
RECURSIVE FilterTruthy(_)
FilterTruthy(texts) ==
  IF texts = <<>> THEN <<>>
  ELSE IF Head(texts) # NoText
       THEN <<Head(texts)>> \o FilterTruthy(Tail(texts))
       ELSE FilterTruthy(Tail(texts))

\* possibleTexts.forEach((text, i) => push({ text, sender: i % 2 === 0 ? 'user' : 'bot' }))
Alternate(texts) ==
  [i \in 1..Len(texts) |-> Message(IF (i - 1) % 2 = 0 THEN "user" ELSE "bot", texts[i])]

OneMessage(sender, text) ==
  IF text # NoText THEN <<Message(sender, text)>> ELSE <<>>

\* const text = item.content || item.message || item.text
ContentOf(item) ==
  FirstTruthy(<<TextOf(item, "content"), TextOf(item, "message"), TextOf(item, "text")>>)

\* The body of messages.forEach((item, index) => { ... })
FormatItem(item) ==
  IF TagOf(item, "role") # ""
  THEN OneMessage(IF TagOf(item, "role") = "user" THEN "user" ELSE "bot",
                  ContentOf(item))
  ELSE IF TextOf(item, "user_message") # NoText /\ TextOf(item, "assistant_message") # NoText
  THEN <<Message("user", TextOf(item, "user_message")),
         Message("bot", TextOf(item, "assistant_message"))>>
  ELSE IF TextOf(item, "query") # NoText /\ TextOf(item, "response") # NoText
  THEN <<Message("user", TextOf(item, "query")), Message("bot", TextOf(item, "response"))>>
  ELSE IF TagOf(item, "type") # "" \/ TagOf(item, "sender") # ""
  THEN OneMessage(IF TagOf(item, "type") = "user" \/ TagOf(item, "sender") = "user"
                  THEN "user" ELSE "bot",
                  ContentOf(item))
  ELSE Alternate(FilterTruthy(
         <<TextOf(item, "user_message"), TextOf(item, "query"),
           TextOf(item, "user_query"), TextOf(item, "message"),
           TextOf(item, "assistant_message"), TextOf(item, "response"),
           TextOf(item, "assistant_response"), TextOf(item, "bot_message"),
           TextOf(item, "content"), TextOf(item, "text")>>))

RECURSIVE FormatMessages(_)
FormatMessages(items) ==
  IF items = <<>> THEN <<>>
  ELSE FormatItem(Head(items)) \o FormatMessages(Tail(items))

\* A payload that always carries a session_id field
BuildPayloadAlways(uid, input, cs) ==
  [user_id |-> uid, query |-> input, hasSessionId |-> TRUE, session_id |-> cs]

\* const payload = { user_id, query }; if (currentSessionId) payload.session_id = ...
BuildPayload(uid, input, cs) ==
  [user_id |-> uid, query |-> input,
   hasSessionId |-> cs # NULL,
   session_id |-> cs]

NoPayload == BuildPayload(UserId, NoText, NULL)
NoReply == [kind |-> "none", session_id |-> NULL, response |-> NoText]
OkReply(sid, t) == [kind |-> "ok", session_id |-> sid, response |-> Response(t)]
FailedReply == [kind |-> "failed", session_id |-> NULL, response |-> NoText]
IdleTurn == [status |-> "idle", payload |-> NoPayload, reply |-> NoReply]
NoDelete == [stage |-> "none", sid |-> NULL, cur |-> NULL]

\* The user message is not recorded
MessagesAfterSendLost(msgs, input) == msgs

\* setMessages((prev) => [...prev, userMessage])
MessagesAfterSend(msgs, input) == Append(msgs, Message("user", input))

\* The catch branch adds nothing
MessagesAfterReplyNoFallback(msgs, reply) ==
  IF reply.kind = "ok" THEN Append(msgs, Message("bot", reply.response)) ELSE msgs

\* setMessages((prev) => [...prev, botMessage]) of the try branch, or
\* setMessages((prev) => [...prev, errorMessage]) of the catch branch
MessagesAfterReply(msgs, reply) ==
  IF reply.kind = "ok"
  THEN Append(msgs, Message("bot", reply.response))
  ELSE Append(msgs, Message("bot", SorryText))

\* The session id of the answer is taken whatever the turn was sent with
AdoptsAlways(reply, sentWith) ==
  reply.kind = "ok" /\ reply.session_id # NULL

\* The session id of the answer is taken when the turn named a session
AdoptsWhenSessionSent(reply, sentWith) ==
  reply.kind = "ok" /\ reply.session_id # NULL /\ sentWith # NULL

\* if (data.session_id && !currentSessionId): currentSessionId is the value of
\* the render that created the handler, the session the turn was sent with
Adopts(reply, sentWith) ==
  reply.kind = "ok" /\ reply.session_id # NULL /\ sentWith = NULL

\* The body POST /recommendations answers with, and the answers themselves
RecommendationBody ==
  Arr(<<Str(<<LETTER, COMMA>>), Str(<<LETTER, LETTER, QUOTE>>)>>)
RecommendationResponses ==
  {[ok |-> TRUE, suggestions |-> RecommendationBody],
   [ok |-> FALSE, suggestions |-> Nullish]}

\* setRecommendations(data.suggestions || []), or [] in the catch branch
RecommendationsFrom(res) ==
  LET out == getRecommendations(res)
  IN IF out.status = "returned" /\ Truthy(out.suggestions)
     THEN out.suggestions
     ELSE Arr(<<>>)

VARIABLES
  \* useState of ChatPageContent
  currentSessionId, messages, inputValue, isLoading, sessions, isSessionsLoading,
  recommendations, isRecommendationsLoading,
  \* useState of ChatSidebar
  anchorEl, selectedSessionId, deleteDialogOpen, isActionLoading,
  \* requests in flight
  turns, pendingMessages, pendingSessions, pendingRecommendations, deleteCall,
  \* the back end
  serverSessions, serverHistory

listVars == <<sessions, isSessionsLoading>>
recoVars == <<recommendations, isRecommendationsLoading, pendingRecommendations>>
sidebarVars == <<anchorEl, selectedSessionId, deleteDialogOpen, isActionLoading>>
serverVars == <<serverSessions, serverHistory>>
chatVars == <<currentSessionId, messages, inputValue, isLoading, listVars, recoVars,
              sidebarVars, turns, pendingMessages, pendingSessions, deleteCall,
              serverVars>>

InitialHistory(sid) ==
  IF sid \in ExistingSessions
  THEN <<Item("user", StoredQuery(sid)), Item("assistant", StoredResponse(sid))>>
  ELSE <<>>

\* The page after mounting, its effects run once; sessionParam is the
\* ?session= query parameter (NULL when there is none).  The back end holds
\* the existing sessions, each with one stored turn.
InitPage(sessionParam) ==
  /\ currentSessionId = sessionParam
  /\ messages = <<>>
  /\ inputValue = NoText
  /\ isLoading = (sessionParam # NULL)
  /\ sessions = {}
  /\ isSessionsLoading = TRUE
  /\ recommendations = Arr(<<>>)
  /\ isRecommendationsLoading = (sessionParam # NULL)
  /\ anchorEl = FALSE
  /\ selectedSessionId = NULL
  /\ deleteDialogOpen = FALSE
  /\ isActionLoading = FALSE
  /\ turns = [t \in Turns |-> IdleTurn]
  /\ pendingMessages = IF sessionParam # NULL THEN {sessionParam} ELSE {}
  /\ pendingSessions = 1
  /\ pendingRecommendations = IF sessionParam # NULL THEN {sessionParam} ELSE {}
  /\ deleteCall = NoDelete

InitChatWith(sessionParam) ==
  /\ InitPage(sessionParam)
  /\ serverSessions = ExistingSessions
  /\ serverHistory = [sid \in SessionIds |-> InitialHistory(sid)]

InitChat == \E sessionParam \in {NULL} \cup ExistingSessions : InitChatWith(sessionParam)

\* The menu and the dialogs of the sidebar are modal (MUI Menu, Dialog).
PageUsable == ~anchorEl /\ ~deleteDialogOpen

\* onChange of the text field, which is disabled while isLoading: the user
\* types the text of the next turn.
TypeInput ==
  /\ PageUsable
  /\ ~isLoading
  /\ \E t \in Turns :
       /\ turns[t].status = "idle"
       /\ \A u \in Turns : u < t => turns[u].status # "idle"
       /\ inputValue' = Query(t)
  /\ UNCHANGED <<currentSessionId, messages, isLoading, listVars, recoVars,
                 sidebarVars, turns, pendingMessages, pendingSessions, deleteCall,
                 serverVars>>

\* handleSendMessage up to its await: the form can be submitted only while
\* the field and the button are enabled.
HandleSendMessage ==
  /\ PageUsable
  /\ ~isLoading
  /\ inputValue # NoText
  /\ \E t \in Turns :
       /\ inputValue = Query(t)
       /\ turns[t].status = "idle"
       /\ turns' = [turns EXCEPT ![t] =
                      [status |-> "inflight",
                       payload |-> BuildPayload(UserId, inputValue, currentSessionId),
                       reply |-> NoReply]]
  /\ messages' = MessagesAfterSend(messages, inputValue)
  /\ inputValue' = NoText
  /\ isLoading' = TRUE
  /\ UNCHANGED <<currentSessionId, listVars, recoVars, sidebarVars,
                 pendingMessages, pendingSessions, deleteCall, serverVars>>

\* setCurrentSessionId(sid) with the two effects on [currentSessionId], from the
\* page with messages msgs and isLoading loading: without a session the
\* messages and the recommendations are cleared, with one its history and
\* its recommendations are requested.
SetCurrentSessionId(sid, msgs, loading) ==
  /\ currentSessionId' = sid
  /\ IF sid = currentSessionId
     THEN /\ messages' = msgs
          /\ isLoading' = loading
          /\ UNCHANGED <<pendingMessages, recoVars>>
     ELSE IF sid = NULL
          THEN /\ messages' = <<>>
               /\ isLoading' = loading
               /\ recommendations' = Arr(<<>>)
               /\ UNCHANGED <<pendingMessages, isRecommendationsLoading,
                              pendingRecommendations>>
          ELSE /\ messages' = msgs
               /\ isLoading' = TRUE
               /\ pendingMessages' = pendingMessages \cup {sid}
               /\ isRecommendationsLoading' = TRUE
               /\ pendingRecommendations' = pendingRecommendations \cup {sid}
               /\ UNCHANGED recommendations

\* handleSessionSelect: a click on a session of the list.  One history request
\* per session is followed at a time.
HandleSessionSelect ==
  /\ PageUsable
  /\ ~isSessionsLoading
  /\ \E sid \in sessions :
       /\ sid # currentSessionId
       /\ sid \notin pendingMessages
       /\ SetCurrentSessionId(sid, messages, isLoading)
  /\ UNCHANGED <<inputValue, listVars, sidebarVars, turns, pendingSessions,
                 deleteCall, serverVars>>

\* handleNewChat
HandleNewChat ==
  /\ PageUsable
  /\ currentSessionId # NULL
  /\ SetCurrentSessionId(NULL, messages, isLoading)
  /\ UNCHANGED <<inputValue, listVars, sidebarVars, turns, pendingSessions,
                 deleteCall, serverVars>>

\* POST /chat/agent on the back end: the session is created when the request
\* names none, the user message and the reply are stored, the answer is sent.
AgentAnswers(t) ==
  LET p == turns[t].payload
      sid == IF p.hasSessionId THEN p.session_id ELSE New(t)
  IN /\ turns[t].status = "inflight"
     /\ p.hasSessionId => sid \in serverSessions
     /\ serverSessions' = serverSessions \cup {sid}
     /\ serverHistory' = [serverHistory EXCEPT ![sid] =
           @ \o <<Item("user", p.query), Item("assistant", Response(t))>>]
     /\ turns' = [turns EXCEPT ![t].status = "answered", ![t].reply = OkReply(sid, t)]
     /\ UNCHANGED <<currentSessionId, messages, inputValue, isLoading, listVars,
                    recoVars, sidebarVars, pendingMessages, pendingSessions,
                    deleteCall>>

\* handleSendMessage after its await, for the answer `reply`: the message of
\* the try or the catch branch, the new session id with fetchSessionsCb(), and
\* finally isLoading false (before the effects of the new session id run).
Continue(t, reply) ==
  LET adopts == Adopts(reply, turns[t].payload.session_id)
  IN /\ turns' = [turns EXCEPT ![t].status = "done", ![t].reply = reply]
     /\ SetCurrentSessionId(IF adopts THEN reply.session_id ELSE currentSessionId,
                            MessagesAfterReply(messages, reply), FALSE)
     /\ pendingSessions' = IF adopts THEN pendingSessions + 1 ELSE pendingSessions
     /\ isSessionsLoading' = IF adopts THEN TRUE ELSE isSessionsLoading
     /\ UNCHANGED <<inputValue, sessions, sidebarVars, deleteCall, serverVars>>

\* The answer of the agent arrives and is decoded
TurnSucceeds(t) ==
  /\ turns[t].status = "answered"
  /\ Continue(t, turns[t].reply)

\* sendMessage throws: the request got no answer, the answer is not a 2xx, or
\* its body cannot be decoded.
TurnFails(t) ==
  /\ turns[t].status \in {"inflight", "answered"}
  /\ Continue(t, FailedReply)

\* The answer to fetchMessages(sid) arrives: the stored history, or the
\* placeholder of the catch branch; finally isLoading is false.
MessagesArrive(sid) ==
  /\ sid \in pendingMessages
  /\ pendingMessages' = pendingMessages \ {sid}
  /\ \/ /\ sid \in serverSessions
        /\ messages' = FormatMessages(serverHistory[sid])
     \/ messages' = <<Message("bot", LoadFailedText)>>
  /\ isLoading' = FALSE
  /\ UNCHANGED <<currentSessionId, inputValue, listVars, recoVars, sidebarVars,
                 turns, pendingSessions, deleteCall, serverVars>>

\* The answer to getRecommendations(sid, 5) arrives
RecommendationsArrive(sid) ==
  /\ sid \in pendingRecommendations
  /\ pendingRecommendations' = pendingRecommendations \ {sid}
  /\ \E res \in RecommendationResponses : recommendations' = RecommendationsFrom(res)
  /\ isRecommendationsLoading' = FALSE
  /\ UNCHANGED <<currentSessionId, messages, inputValue, isLoading, listVars,
                 sidebarVars, turns, pendingMessages, pendingSessions, deleteCall,
                 serverVars>>

\* The answer to a fetchSessions that nobody awaits (mount, a new session):
\* data.sessions || [], or [] in the catch branch.  The list is kept as a set.
SessionsArrive ==
  /\ pendingSessions > 0
  /\ pendingSessions' = pendingSessions - 1
  /\ \/ sessions' = serverSessions
     \/ sessions' = {}
  /\ isSessionsLoading' = FALSE
  /\ UNCHANGED <<currentSessionId, messages, inputValue, isLoading, recoVars,
                 sidebarVars, turns, pendingMessages, deleteCall, serverVars>>

\* handleMenuClick: the kebab button of a session of the list
HandleMenuClick ==
  /\ PageUsable
  /\ ~isSessionsLoading
  /\ \E sid \in sessions : selectedSessionId' = sid
  /\ anchorEl' = TRUE
  /\ UNCHANGED <<currentSessionId, messages, inputValue, isLoading, listVars,
                 recoVars, deleteDialogOpen, isActionLoading, turns,
                 pendingMessages, pendingSessions, deleteCall, serverVars>>

\* handleDelete (with its handleMenuClose)
HandleDelete ==
  /\ anchorEl
  /\ deleteDialogOpen' = TRUE
  /\ anchorEl' = FALSE
  /\ UNCHANGED <<currentSessionId, messages, inputValue, isLoading, listVars,
                 recoVars, selectedSessionId, isActionLoading, turns,
                 pendingMessages, pendingSessions, deleteCall, serverVars>>

\* handleDialogClose('delete')
HandleDialogClose ==
  /\ deleteDialogOpen
  /\ ~isActionLoading
  /\ deleteDialogOpen' = FALSE
  /\ selectedSessionId' = NULL
  /\ UNCHANGED <<currentSessionId, messages, inputValue, isLoading, listVars,
                 recoVars, anchorEl, isActionLoading, turns, pendingMessages,
                 pendingSessions, deleteCall, serverVars>>

\* handleDeleteConfirm up to its await; cur is the currentSessionId prop of
\* the render that created the handler.
HandleDeleteConfirm ==
  /\ deleteDialogOpen
  /\ ~isActionLoading
  /\ selectedSessionId # NULL
  /\ isActionLoading' = TRUE
  /\ deleteCall' = [stage |-> "deleting", sid |-> selectedSessionId,
                    cur |-> currentSessionId]
  /\ UNCHANGED <<currentSessionId, messages, inputValue, isLoading, listVars,
                 recoVars, anchorEl, selectedSessionId, deleteDialogOpen, turns,
                 pendingMessages, pendingSessions, serverVars>>

\* A turn of the session that the back end has not answered yet
TurnInProgress(sid) ==
  \E t \in Turns :
    /\ turns[t].status = "inflight"
    /\ turns[t].payload.hasSessionId
    /\ turns[t].payload.session_id = sid

\* DELETE /chat/sessions/{id} answers.  The back end deletes the session with
\* its messages, or the request fails (always, while the back end works on a
\* turn of the session).  On success handleDeleteSession goes on to
\* fetchSessionsCb; on failure handleDeleteConfirm logs the error.
DeleteAnswers ==
  /\ deleteCall.stage = "deleting"
  /\ \/ /\ deleteCall.sid \in serverSessions
        /\ ~TurnInProgress(deleteCall.sid)
        /\ serverSessions' = serverSessions \ {deleteCall.sid}
        /\ serverHistory' = [serverHistory EXCEPT ![deleteCall.sid] = <<>>]
        /\ deleteCall' = [deleteCall EXCEPT !.stage = "refreshing"]
        /\ isSessionsLoading' = TRUE
        /\ UNCHANGED isActionLoading
     \/ /\ deleteCall' = NoDelete
        /\ isActionLoading' = FALSE
        /\ UNCHANGED <<isSessionsLoading, serverVars>>
  /\ UNCHANGED <<currentSessionId, messages, inputValue, isLoading, sessions,
                 recoVars, anchorEl, selectedSessionId, deleteDialogOpen, turns,
                 pendingMessages, pendingSessions>>

\* The fetchSessionsCb awaited by handleDeleteSession ends and
\* handleDeleteConfirm goes on: the dialog closes and, when the deleted session
\* was the current one, onSessionSelect(null).
DeleteCompletes ==
  /\ deleteCall.stage = "refreshing"
  /\ \/ sessions' = serverSessions
     \/ sessions' = {}
  /\ isSessionsLoading' = FALSE
  /\ deleteDialogOpen' = FALSE
  /\ selectedSessionId' = NULL
  /\ isActionLoading' = FALSE
  /\ deleteCall' = NoDelete
  /\ SetCurrentSessionId(IF deleteCall.sid = deleteCall.cur THEN NULL
                         ELSE currentSessionId, messages, isLoading)
  /\ UNCHANGED <<inputValue, anchorEl, turns, pendingSessions, serverVars>>

VARIABLES recInput, recItems, recOutput

recVars == <<recInput, recItems, recOutput>>

\* One call of an API function: the function with its environment and the
\* answer it will get, the request it sent, and what it ended with
VARIABLES apiCall, apiRequest, apiOutcome

apiVars == <<apiCall, apiRequest, apiOutcome>>

\* The dashboard: the answers its requests will get, the position of
\* fetchDashboardData, and useState of DashboardPage
VARIABLES dashAnswers, dashStage, userInfo, ticketSummary, loading

dashVars == <<dashAnswers, dashStage, userInfo, ticketSummary, loading>>
callVars == <<recVars, apiVars, dashVars>>
vars == <<callVars, chatVars>>

\* The dashboard as it is mounted, with user info answer u and ticket answers a
InitDashboardWith(u, a) ==
  /\ dashAnswers = [userInfo |-> u, tickets |-> a]
  /\ dashStage = "userInfo"
  /\ userInfo = "null"
  /\ ticketSummary = NoTickets
  /\ loading = TRUE

NoDashboard == InitDashboardWith(NoAnswer, [s \in TicketStatuses |-> NoAnswer])

NoApiCall ==
  /\ apiCall = IdleCall
  /\ apiRequest = NoRequest
  /\ apiOutcome = PendingOutcome

InitRec ==
  /\ InitChatWith(NULL)
  /\ NoApiCall
  /\ NoDashboard
  /\ recOutput = Pending
  /\ \/ /\ recItems = <<>>
        /\ \E ok \in BOOLEAN :
             \E sug \in ArrayInputs \cup StringInputs \cup {Other, Nullish} :
               recInput = [ok |-> ok, suggestions |-> sug]
     \/ /\ recItems \in ItemLists
        /\ recInput = [ok |-> TRUE, suggestions |-> Str(QuotedList(recItems))]

\* await getRecommendations(sessionId, 5): the response arrives and is normalised
GetRecommendations ==
  /\ recOutput.status = "pending"
  /\ recOutput' = getRecommendations(recInput)
  /\ UNCHANGED <<recInput, recItems, apiVars, dashVars, chatVars>>

NextRec == GetRecommendations

SpecRec == InitRec /\ [][NextRec]_vars

\* The chat page.  The answers to the recommendations requests change nothing
\* but recoVars, which no other handler reads: here they arrive before the
\* next event, and the user deletes no session.
Init ==
  /\ InitChat
  /\ NoApiCall
  /\ NoDashboard
  /\ recInput = [ok |-> FALSE, suggestions |-> Nullish]
  /\ recItems = <<>>
  /\ recOutput = Pending

Prompt == pendingRecommendations = {}

Next ==
  \/ \E sid \in SessionIds : RecommendationsArrive(sid) /\ UNCHANGED callVars
  \/ Prompt /\ TypeInput /\ UNCHANGED callVars
  \/ Prompt /\ HandleSendMessage /\ UNCHANGED callVars
  \/ Prompt /\ HandleSessionSelect /\ UNCHANGED callVars
  \/ Prompt /\ HandleNewChat /\ UNCHANGED callVars
  \/ \E t \in Turns : Prompt /\ AgentAnswers(t) /\ UNCHANGED callVars
  \/ \E t \in Turns : Prompt /\ TurnSucceeds(t) /\ UNCHANGED callVars
  \/ \E t \in Turns : Prompt /\ TurnFails(t) /\ UNCHANGED callVars
  \/ \E sid \in SessionIds : Prompt /\ MessagesArrive(sid) /\ UNCHANGED callVars
  \/ Prompt /\ SessionsArrive /\ UNCHANGED callVars

Spec == Init /\ [][Next]_vars

\* The chat page with the sidebar's delete
NextDelete ==
  \/ Next
  \/ Prompt /\ HandleMenuClick /\ UNCHANGED callVars
  \/ Prompt /\ HandleDelete /\ UNCHANGED callVars
  \/ Prompt /\ HandleDialogClose /\ UNCHANGED callVars
  \/ Prompt /\ HandleDeleteConfirm /\ UNCHANGED callVars
  \/ Prompt /\ DeleteAnswers /\ UNCHANGED callVars
  \/ Prompt /\ DeleteCompletes /\ UNCHANGED callVars

SpecDelete == Init /\ [][NextDelete]_vars

\* The chat page with the answers to the recommendations requests arriving at
\* any time
NextAsync ==
  \/ \E sid \in SessionIds : RecommendationsArrive(sid) /\ UNCHANGED callVars
  \/ TypeInput /\ UNCHANGED callVars
  \/ HandleSendMessage /\ UNCHANGED callVars
  \/ HandleSessionSelect /\ UNCHANGED callVars
  \/ HandleNewChat /\ UNCHANGED callVars
  \/ \E t \in Turns : AgentAnswers(t) /\ UNCHANGED callVars
  \/ \E t \in Turns : TurnSucceeds(t) /\ UNCHANGED callVars
  \/ \E t \in Turns : TurnFails(t) /\ UNCHANGED callVars
  \/ \E sid \in SessionIds : MessagesArrive(sid) /\ UNCHANGED callVars
  \/ SessionsArrive /\ UNCHANGED callVars

SpecAsync == Init /\ [][NextAsync]_vars

\* One call of an API function, for every function, environment and answer
InitApi ==
  /\ InitChatWith(NULL)
  /\ recInput = [ok |-> FALSE, suggestions |-> Nullish]
  /\ recItems = <<>>
  /\ recOutput = Pending
  /\ \E fn \in ApiFunctions, user \in AuthUsers, pass \in AuthPasses,
        res \in Responses :
       apiCall = [fn |-> fn, user |-> user, pass |-> pass, response |-> res]
  /\ apiRequest = NoRequest
  /\ apiOutcome = PendingOutcome
  /\ NoDashboard

\* await fetch(url, { method, headers }): the request is sent
ApiSend ==
  /\ apiRequest = NoRequest
  /\ apiRequest' = Request(apiCall.fn, apiCall.user, apiCall.pass)
  /\ UNCHANGED <<apiCall, apiOutcome, recVars, dashVars, chatVars>>

\* The rest of the function, once the fetch is settled
ApiReceive ==
  /\ apiRequest # NoRequest
  /\ apiOutcome.status = "pending"
  /\ apiOutcome' = Handle(apiCall.fn, apiCall.response)
  /\ UNCHANGED <<apiCall, apiRequest, recVars, dashVars, chatVars>>

NextApi == ApiSend \/ ApiReceive

SpecApi == InitApi /\ [][NextApi]_vars

\* The page opened on a session whose stored history is any list of items
StoredText(f, i) == <<f, i>>

ItemTags ==
  {<<"", "">>, <<"role", "user">>, <<"role", "assistant">>, <<"type", "user">>,
   <<"type", "bot">>, <<"sender", "user">>}

FieldSets == {fs \in SUBSET TextFields : Cardinality(fs) <= MaxFields}

\* The i-th item of a history: the tag field, if any, and the text fields fs,
\* each with its own text
StoredItem(tag, fs, i) ==
  [f \in fs \cup ({tag[1]} \ {""}) |->
     IF f \in fs THEN StoredText(f, i) ELSE tag[2]]

History(tags, fss) == [i \in 1..Len(tags) |-> StoredItem(tags[i], fss[i], i)]

InitHistory ==
  /\ InitPage(Old(1))
  /\ NoApiCall
  /\ NoDashboard
  /\ recInput = [ok |-> FALSE, suggestions |-> Nullish]
  /\ recItems = <<>>
  /\ recOutput = Pending
  /\ serverSessions = ExistingSessions
  /\ \E n \in 1..MaxHistory :
       \E tags \in [1..n -> ItemTags], fss \in [1..n -> FieldSets] :
         serverHistory =
           [sid \in SessionIds |-> IF sid = Old(1) THEN History(tags, fss) ELSE <<>>]

NextHistory == \E sid \in SessionIds : MessagesArrive(sid) /\ UNCHANGED callVars

SpecHistory == InitHistory /\ [][NextHistory]_vars

\* The dashboard loading its data once, for every answer of every endpoint
InitDashboard ==
  /\ InitChatWith(NULL)
  /\ NoApiCall
  /\ recInput = [ok |-> FALSE, suggestions |-> Nullish]
  /\ recItems = <<>>
  /\ recOutput = Pending
  /\ \E u \in UserInfoAnswers :
       \E a \in [TicketStatuses -> TicketAnswers] : InitDashboardWith(u, a)

\* The catch and the finally of fetchDashboardData
DashboardCatch ==
  /\ dashStage' = "failed"
  /\ userInfo' = IF userInfo = "null" THEN "fallback" ELSE userInfo
  /\ loading' = FALSE
  /\ UNCHANGED <<dashAnswers, ticketSummary>>

\* fetchDashboardData up to the ticket requests: the user's info from the
\* API, or the fallback when the answer is not a 2xx
FetchUserInfo ==
  LET res == dashAnswers.userInfo
  IN /\ dashStage = "userInfo"
     /\ IF FetchRejects(res) \/ (ResOk(res) /\ JsonRejects(res))
        THEN DashboardCatch
        ELSE /\ dashStage' = "tickets"
             /\ userInfo' = IF ResOk(res) THEN "api" ELSE "fallback"
             /\ UNCHANGED <<dashAnswers, ticketSummary, loading>>
     /\ UNCHANGED <<recVars, apiVars, chatVars>>

\* The three ticket requests of Promise.all, the three counts and
\* setTicketSummary
FetchTickets ==
  LET answers == dashAnswers.tickets
  IN /\ dashStage = "tickets"
     /\ IF TicketsThrow(answers)
        THEN DashboardCatch
        ELSE /\ dashStage' = "rest"
             /\ ticketSummary' = [s \in TicketStatuses |-> TicketCount(answers[s])]
             /\ UNCHANGED <<dashAnswers, userInfo, loading>>
     /\ UNCHANGED <<recVars, apiVars, chatVars>>

\* The pull requests, the documentation and the learning resources, each in
\* its own try block, and the finally
FetchRest ==
  /\ dashStage = "rest"
  /\ dashStage' = "done"
  /\ loading' = FALSE
  /\ UNCHANGED <<dashAnswers, userInfo, ticketSummary>>
  /\ UNCHANGED <<recVars, apiVars, chatVars>>

NextDashboard == FetchUserInfo \/ FetchTickets \/ FetchRest

SpecDashboard == InitDashboard /\ [][NextDashboard]_vars

\* ------------------------------------------------------------ claims
ReturnedArray ==
  recOutput.status = "returned" /\ recOutput.suggestions.t = "arr"

ArtifactChars == {QUOTE, COMMA, BSLASH}

CleanEdges(s) ==
  s # <<>> => Head(s) \notin ArtifactChars /\ Last(s) \notin ArtifactChars

NoEdgeSpace(s) == s # <<>> => Head(s) # SPACE /\ Last(s) # SPACE

\* C1: for every successful response whose suggestions field is non-empty
\* (truthy), whatever its form, getRecommendations returns suggestions as an
\* array.
C1_SuggestionsIsArray ==
  (recOutput.status = "returned" /\ recInput.ok /\ Truthy(recInput.suggestions))
    => recOutput.suggestions.t = "arr"

\* C2: every suggestion string returned by getRecommendations has no quote,
\* comma or backslash as its first or its last character.
C2_SuggestionsCleanEdges ==
  ReturnedArray =>
    \A i \in 1..Len(recOutput.suggestions.v) :
      CleanEdges(recOutput.suggestions.v[i].v)

\* C3 (as stated): a raw string of two or more quoted items, a comma after
\* each, the items free of quote, comma and backslash, is normalised to
\* exactly the list of the items in the same order.
C3_RoundTripAnyItems ==
  (recItems # <<>> /\ recOutput.status = "returned")
    => recOutput.suggestions = Arr(StrSeq(recItems))

\* C3 (amended): the same, for items that neither begin nor end with white
\* space (cleanSuggestion trims each piece).
C3_RoundTrip ==
  (/\ recItems # <<>>
   /\ recOutput.status = "returned"
   /\ \A i \in 1..Len(recItems) : NoEdgeSpace(recItems[i]))
    => recOutput.suggestions = Arr(StrSeq(recItems))

C3_Witness ==
  /\ recOutput.status = "returned"
  /\ Len(recItems) >= 2
  /\ \A i \in 1..Len(recItems) : recItems[i] # <<>> /\ NoEdgeSpace(recItems[i])
  /\ recOutput.suggestions = Arr(StrSeq(recItems))


\* C11: the suggestions value that getRecommendations returns for a response
\* with a non-empty suggestions field is an array of two or three suggestions,
\* never fewer and never more.
C11_TwoOrThreeSuggestions ==
  (recOutput.status = "returned" /\ recInput.ok /\ Truthy(recInput.suggestions)) =>
    /\ recOutput.suggestions.t = "arr"
    /\ Len(recOutput.suggestions.v) \in 2..3

\* C12: the clean-up is idempotent on what getRecommendations returns: applied
\* to a returned suggestion it gives that suggestion back.
C12_CleanIsIdempotent ==
  ReturnedArray =>
    \A i \in 1..Len(recOutput.suggestions.v) :
      cleanSuggestion(recOutput.suggestions.v[i].v) = recOutput.suggestions.v[i].v

\* ---------------------------------------------------- claims on the API calls
\* The endpoints the README marks (Protected)
ProtectedEndpoints ==
  {<<"POST", "/chat/agent">>, <<"DELETE", "/chat/sessions/{session_id}">>,
   <<"POST", "/recommendations">>}

SentToProtected ==
  /\ apiRequest # NoRequest
  /\ <<apiRequest.method, apiRequest.path>> \in ProtectedEndpoints

BasicHeader(user, pass) ==
  [present |-> TRUE, value |-> <<"Basic", btoa(<<user.v, ":", pass.v>>)>>]

\* C14 as stated: every request sent to a protected endpoint carries the Basic
\* Authorization header built from the user name and the password.
C14_AlwaysAuthorized ==
  SentToProtected =>
    apiRequest.authorization = BasicHeader(apiCall.user, apiCall.pass)

\* C14 amended: a request sent to a protected endpoint carries the Basic
\* Authorization header built from the user name and the password when both
\* are set and not empty, and no Authorization header otherwise.
C14_AuthorizedWhenConfigured ==
  SentToProtected =>
    IF EnvTruthy(apiCall.user) /\ EnvTruthy(apiCall.pass)
    THEN apiRequest.authorization = BasicHeader(apiCall.user, apiCall.pass)
    ELSE ~apiRequest.authorization.present

C14_Witness ==
  /\ SentToProtected
  /\ apiCall.fn = "deleteSession"
  /\ apiCall.user = Env("r2-dev2")
  /\ apiRequest.authorization.present

Answered(fns) ==
  /\ apiCall.fn \in fns
  /\ apiCall.response.kind = "http"
  /\ apiOutcome.status # "pending"

\* C19: renameSession and deleteSession raise an error with the status and the
\* response text on a status outside 2xx, return {success: true} without
\* reading the body on 204, and return the parsed JSON body on any other 2xx.
C19_RenameDeleteOutcome ==
  Answered({"renameSession", "deleteSession"}) =>
    LET res == apiCall.response
    IN /\ ~ResOk(res) =>
            /\ apiOutcome.status = "threw"
            /\ apiOutcome.code = res.status
            /\ apiOutcome.text = res.body.text
       /\ res.status = 204 =>
            /\ apiOutcome.status = "returned"
            /\ apiOutcome.kind = "success"
            /\ apiOutcome.read = "none"
       /\ (ResOk(res) /\ res.status # 204 /\ res.body.json) =>
            /\ apiOutcome.status = "returned"
            /\ apiOutcome.kind = "json"
            /\ apiOutcome.text = res.body.text

C19_Witness ==
  /\ Answered({"deleteSession"})
  /\ apiCall.response.status = 204
  /\ apiCall.response.body.json
  /\ apiOutcome = ReturnedSuccess

\* C20: getLastActiveSession returns null on a 404, raises an error with the
\* status on any other status outside 2xx, and returns the parsed session on a
\* 2xx.
C20_LastActiveOutcome ==
  Answered({"getLastActiveSession"}) =>
    LET res == apiCall.response
    IN /\ res.status = 404 =>
            /\ apiOutcome.status = "returned"
            /\ apiOutcome.kind = "null"
       /\ (~ResOk(res) /\ res.status # 404) =>
            /\ apiOutcome.status = "threw"
            /\ apiOutcome.code = res.status
       /\ (ResOk(res) /\ res.body.json) =>
            /\ apiOutcome.status = "returned"
            /\ apiOutcome.kind = "json"
            /\ apiOutcome.text = res.body.text

C20_Witness ==
  /\ Answered({"getLastActiveSession"})
  /\ apiCall.response.status = 404
  /\ apiOutcome = ReturnedNull

\* ------------------------------------------------- claims on the dashboard

\* The ticket requests were sent and each was answered
TicketsAnswered ==
  /\ dashStage \in {"done", "failed"}
  /\ ~FetchRejects(dashAnswers.userInfo)
  /\ ~(ResOk(dashAnswers.userInfo) /\ JsonRejects(dashAnswers.userInfo))
  /\ \A s \in TicketStatuses : ~FetchRejects(dashAnswers.tickets[s])

\* C21: once the dashboard has loaded, each ticket count is the length of the
\* array its endpoint returned, and 0 when the endpoint answered with a
\* non-2xx status or a body that is not an array, whatever the other two
\* endpoints answered.
C21_TicketCounts ==
  TicketsAnswered =>
    \A s \in TicketStatuses :
      LET res == dashAnswers.tickets[s]
      IN IF ResOk(res) /\ res.body.json = "array"
         THEN ticketSummary[s] = res.body.n
         ELSE ticketSummary[s] = 0

\* ------------------------------------------------- claims on the chat page
\* The turn was sent and the page has not handled its answer yet
AwaitsReply(t) == turns[t].status \in {"inflight", "answered"}

\* handleSendMessage issues the request of turn t in this step
Sends(t) == turns[t].status = "idle" /\ turns'[t].status = "inflight"

\* handleSendMessage handles the outcome of turn t in this step
Completes(t) == turns[t].status # "done" /\ turns'[t].status = "done"

UserMessage(t) == Message("user", Query(t))
BotMessage(t) == Message("bot", Response(t))
Shown(m) == \E i \in 1..Len(messages) : messages[i] = m

\* C4: at most one turn is in flight per session at any time: no two turns
\* that await their reply were sent with the same session_id.
C4_OneTurnInFlightPerSession ==
  \A t1, t2 \in Turns :
    ( /\ t1 # t2
      /\ AwaitsReply(t1) /\ AwaitsReply(t2)
      /\ turns[t1].payload.hasSessionId /\ turns[t2].payload.hasSessionId )
    => turns[t1].payload.session_id # turns[t2].payload.session_id

OfTurn(m, t) == m.text \in {Query(t), Response(t)}

Interleaved(t1, t2) ==
  \E i, j, k \in 1..Len(messages) :
    /\ i < j /\ j < k
    /\ OfTurn(messages[i], t1) /\ OfTurn(messages[j], t2) /\ OfTurn(messages[k], t1)

\* C5: the messages of two turns of one session never interleave: no message
\* of one turn stands between two messages of the other in the conversation.
C5_TurnsDoNotInterleave ==
  \A t1, t2 \in Turns :
    ( /\ t1 # t2
      /\ turns[t1].status # "idle" /\ turns[t2].status # "idle"
      /\ turns[t1].payload.hasSessionId /\ turns[t2].payload.hasSessionId
      /\ turns[t1].payload.session_id = turns[t2].payload.session_id )
    => ~Interleaved(t1, t2)

\* C6: the step that ends a turn appends exactly one assistant message to the
\* conversation: the agent's response when the request succeeded, the text
\* 'Sorry, something went wrong.' when it failed; a turn ends once.
C6_OneAssistantMessagePerTurn ==
  [][\A t \in Turns :
       /\ Completes(t) =>
            messages' = Append(messages,
                               IF turns'[t].reply.kind = "ok" THEN BotMessage(t)
                               ELSE Message("bot", SorryText))
       /\ turns[t].status = "done" => turns'[t] = turns[t]]_vars

C6_Witness ==
  \E t1, t2 \in Turns :
    /\ turns[t1].status = "done" /\ turns[t1].reply.kind = "ok"
    /\ turns[t2].status = "done" /\ turns[t2].reply.kind = "failed"
    /\ Shown(BotMessage(t1))
    /\ Shown(Message("bot", SorryText))

\* C7: the step that issues the request of a turn appends the user's message
\* to the conversation, and the step that handles a failed request keeps every
\* message as it was and adds the fallback reply after them.
C7_UserMessageKept ==
  [][\A t \in Turns :
       /\ Sends(t) =>
            /\ turns'[t].payload.query = inputValue
            /\ messages' = Append(messages, Message("user", inputValue))
       /\ (Completes(t) /\ turns'[t].reply.kind = "failed") =>
            /\ Len(messages') = Len(messages) + 1
            /\ SubSeq(messages', 1, Len(messages)) = messages
            /\ messages'[Len(messages')] = Message("bot", SorryText)]_vars

C7_Witness ==
  \E t \in Turns :
    /\ turns[t].status = "done" /\ turns[t].reply.kind = "failed"
    /\ Len(messages) >= 2
    /\ messages[Len(messages) - 1] = UserMessage(t)
    /\ messages[Len(messages)] = Message("bot", SorryText)

C9_PayloadFields ==
  [][\A t \in Turns :
       Sends(t) =>
         /\ turns'[t].payload.user_id = UserId
         /\ turns'[t].payload.query = inputValue
         /\ turns'[t].payload.hasSessionId <=> (currentSessionId # NULL)
         /\ turns'[t].payload.hasSessionId =>
              turns'[t].payload.session_id = currentSessionId]_vars

C9_Witness ==
  \E t1, t2 \in Turns :
    /\ turns[t1].status # "idle" /\ turns[t2].status # "idle"
    /\ turns[t1].payload.hasSessionId
    /\ turns[t1].payload.session_id \in ExistingSessions
    /\ turns[t1].payload.query = Query(t1)
    /\ ~turns[t2].payload.hasSessionId

\* C10: while a turn of a session awaits its reply, the session is not deleted
\* on the back end, and the end of a delete does not take the turn's user
\* message out of the conversation (which would leave its reply an orphan).
C10_DeleteSparesTurnInFlight ==
  [][\A t \in Turns :
       (AwaitsReply(t) /\ turns[t].payload.hasSessionId) =>
         /\ turns[t].payload.session_id \in serverSessions =>
              turns[t].payload.session_id \in serverSessions'
         /\ ( /\ deleteCall.stage = "refreshing"
              /\ deleteCall'.stage = "none"
              /\ Shown(UserMessage(t)) ) =>
              \E i \in 1..Len(messages') : messages'[i] = UserMessage(t)]_vars


\* C13: the step in which the response of a turn is shown requests the
\* recommendations of the turn's session again, when that session is the
\* current one (also when it was the current one before the turn).
C13_RefetchAfterResponse ==
  [][\A t \in Turns :
       ( /\ Completes(t)
         /\ turns'[t].reply.kind = "ok"
         /\ currentSessionId' = turns'[t].reply.session_id ) =>
         currentSessionId' \in pendingRecommendations']_vars

\* C16: whenever no session is selected, the recommended actions shown are an
\* empty sequence.
C16_NoSessionNoRecommendations ==
  currentSessionId = NULL => recommendations = Arr(<<>>)


\* handleDeleteConfirm goes on after a successful delete in this step
DeleteSucceeds == deleteCall.stage = "refreshing" /\ deleteCall'.stage = "none"

\* C15: after a successful delete of the session that is selected, no session
\* is selected and no message is displayed; after a successful delete of any
\* other session the selection and the messages displayed are unchanged.
C15_DeleteClearsView ==
  [][DeleteSucceeds =>
       IF deleteCall.sid = currentSessionId
       THEN currentSessionId' = NULL /\ messages' = <<>>
       ELSE currentSessionId' = currentSessionId /\ messages' = messages]_vars


\* The history of the current session has been loaded and formatted
HistoryShown ==
  /\ currentSessionId # NULL
  /\ pendingMessages = {}
  /\ messages # <<Message("bot", LoadFailedText)>>
  /\ \A j \in 1..Len(messages) : messages[j].text[1] \in TextFields

AssistantFields == {"assistant_message", "response", "assistant_response", "bot_message"}

\* The text of field f of the item was stored as what the assistant said
StoredAsAssistant(item, f) ==
  \/ f \in AssistantFields
  \/ f \in {"content", "message", "text"} /\ TagOf(item, "role") \notin {"", "user"}

\* C18: the stored history is shown in the order of its items; a text of an
\* item with a role is shown as a user message exactly when the role is
\* 'user'; an item with a user_message and an assistant_message (and no role)
\* yields the first immediately followed by the second; and no text stored as
\* an assistant message is shown as a user message.
C18_HistoryRenderedFaithfully ==
  HistoryShown =>
    LET h == serverHistory[currentSessionId]
    IN /\ \A j, k \in 1..Len(messages) :
            j < k => messages[j].text[2] <= messages[k].text[2]
       /\ \A j \in 1..Len(messages) :
            TagOf(h[messages[j].text[2]], "role") # "" =>
              (messages[j].sender = "user" <=>
                 TagOf(h[messages[j].text[2]], "role") = "user")
       /\ \A i \in 1..Len(h) :
            ( /\ TagOf(h[i], "role") = ""
              /\ TextOf(h[i], "user_message") # NoText
              /\ TextOf(h[i], "assistant_message") # NoText ) =>
              \E j \in 1..(Len(messages) - 1) :
                /\ messages[j] = Message("user", h[i].user_message)
                /\ messages[j + 1] = Message("bot", h[i].assistant_message)
       /\ \A j \in 1..Len(messages) :
            messages[j].sender = "user" =>
              ~StoredAsAssistant(h[messages[j].text[2]], messages[j].text[1])


\* C17: when the answer to a turn sent with no session arrives, its session id
\* becomes the current session and the session list is fetched again; when the
\* answer to a turn sent within a session arrives, the current session stays
\* and no session list is fetched.
C17_AdoptsNewSession ==
  [][\A t \in Turns :
       (Completes(t) /\ turns'[t].reply.kind = "ok") =>
         IF turns[t].payload.hasSessionId
         THEN /\ currentSessionId' = currentSessionId
              /\ pendingSessions' = pendingSessions
              /\ isSessionsLoading' = isSessionsLoading
         ELSE /\ currentSessionId' = turns'[t].reply.session_id
              /\ pendingSessions' = pendingSessions + 1
              /\ isSessionsLoading']_vars

C17_Witness ==
  \E t1, t2 \in Turns :
    /\ turns[t1].status = "done" /\ turns[t1].reply.kind = "ok"
    /\ ~turns[t1].payload.hasSessionId
    /\ turns[t2].status = "done" /\ turns[t2].reply.kind = "ok"
    /\ turns[t2].payload.hasSessionId
    /\ currentSessionId = New(t1)
    /\ New(t1) \in sessions

\* The last history request in flight settles
HistorySettles == pendingMessages # {} /\ pendingMessages' = {}

\* What the page shows of session sid once its history is loaded
HistoryOf(sid) ==
  {FormatMessages(serverHistory[sid]), <<Message("bot", LoadFailedText)>>}

\* C22: after the user has switched from session A to session B (B a session
\* of the list that the page did not create), when the last history request
\* settles the page shows the messages of B, or B's load-failure placeholder:
\* a late answer to A's history request does not replace them.
C22_ShowsSelectedSession ==
  [][(HistorySettles /\ currentSessionId' \in ExistingSessions)
       => messages' \in HistoryOf(currentSessionId')]_vars

\* The session turn t was sent in (NULL for a new chat)
SentIn(t) == turns[t].payload.session_id

\* Since turn t was sent the user has selected a session of the list
SelectedSince(t) ==
  currentSessionId \in ExistingSessions /\ currentSessionId # SentIn(t)

\* Since turn t was sent the user has started a new chat
NewChatSince(t) == currentSessionId = NULL /\ SentIn(t) # NULL

\* C23: when the reply of a turn (or its fallback message) arrives after the
\* user has switched to another session or started a new chat, it is not
\* appended to the conversation now displayed.
C23_ReplyStaysInItsSession ==
  [][\A t \in Turns :
       (Completes(t) /\ (SelectedSince(t) \/ NewChatSince(t)))
         => messages' = messages]_vars

\* C24: when the reply of a turn arrives after the user has selected a
\* session, the selected session stays the one the user chose, even when the
\* reply carries the id of a newly created session.
C24_ReplyKeepsSelection ==
  [][\A t \in Turns :
       (Completes(t) /\ SelectedSince(t))
         => currentSessionId' = currentSessionId]_vars

====
